---- MODULE Spec2Model ----
(***************************************************************************)
(* A model of src/trend_analyzer.py: the snapshot store (one JSON file per *)
(* save, named by the second of saving), the window loader and the trend   *)
(* analysis; and of what src/cleanup.py, src/docker_optimizer.py and       *)
(* src/health_check.py do beside it.                                       *)
(*                                                                         *)
(* Time is counted in ticks; TicksPerSecond ticks make one second of the   *)
(* file name's strftime and HourLen ticks one hour of the window.  Floats  *)
(* are exact rationals in hundredths (0.5 is 50, 81 is 8100); a mean is    *)
(* kept as the pair sum/count and every comparison against it is done by   *)
(* cross-multiplication.  Python strings that the code takes apart are     *)
(* sequences of one-character strings.                                     *)
(*                                                                         *)
(* Spec is the store as one process uses it; SpecWrite splits a save into  *)
(* its open and its close, with instances in separate processes;           *)
(* SpecUnavailable lets data_dir go missing or lose its permissions;       *)
(* SpecAnalyze and SpecFields apply analyze_trend to windows of snapshots  *)
(* as get_current_stats writes them and of snapshots with unusual fields;  *)
(* SpecFailure adds a run that fails in collection or in the middle of a   *)
(* save, SpecCleanup the cleanup script run days later, SpecMain runs main *)
(* with its options, SpecCollect applies get_current_stats to what its     *)
(* commands print, SpecDocker runs the operations of DockerOptimizer on an *)
(* engine and SpecHealth aggregates the results of the six health checks.  *)
(***************************************************************************)
EXTENDS Integers, Sequences, FiniteSets, TLC

VARIABLES
    now,        \* the wall clock datetime.now() reads, in ticks
    alive,      \* the TrendAnalyzer instances constructed so far
    timestamp,  \* self.timestamp of each instance (empty before construction)
    files,      \* data_dir: file name (second of saving) -> JSON text
    saved,      \* history: the save_stats calls made, [name, stats], oldest first
    recent,     \* main's recent: the last load_recent_stats result
    analysis,   \* main's analysis: the last analyze_trend result
    pending,    \* per instance: the save_stats call between open() and close(), if any
    directory,  \* data_dir as the file system offers it: "ok", "missing" or "denied"
    outcome,    \* what the last store operation that met a fault reported of it
    shell,      \* what df, free, uptime and docker ps print to the next collection
    snapshot,   \* the result of the last get_current_stats on those outputs
    invocation, \* main of trend_analyzer.py: its arguments and how far it has run
    daemon,     \* docker_optimizer.py: the Docker engine's objects and the commands run
    health      \* health_check.py: the six check results and the report made of them

vars == <<now, alive, timestamp, files, saved, recent, analysis, pending, directory, outcome,
          shell, snapshot, invocation, daemon, health>>

\* what only the fault specifications change
io == <<pending, directory, outcome>>

\* what only the specifications of main and of the other scripts change
scripts == <<shell, snapshot, invocation, daemon, health>>

(* ------------------------------ bounds ------------------------------ *)
MaxTime == 3
TicksPerSecond == 2
HourLen == 3
MaxSaves == 2
MaxWin == 4
MaxChars == 3
MaxFieldWin == 3

Inst == {1, 2}
Hours == {0, 1}

(* ------------------------- python primitives ------------------------ *)
EmptyDict == [k \in {} |-> k]

\* dict.get(k, default)
Get(d, k, default) == IF k \in DOMAIN d THEN d[k] ELSE default

\* d[k] = v
Put(d, k, v) == [x \in DOMAIN d \cup {k} |-> IF x = k THEN v ELSE d[x]]

DigitChars == <<"0", "1", "2", "3", "4", "5", "6", "7", "8", "9">>

IsDigit(c) == \E i \in 1..10 : DigitChars[i] = c

DigitVal(c) == (CHOOSE i \in 1..10 : DigitChars[i] = c) - 1

\* str(n) of a non-negative integer
RECURSIVE Decimal(_)
Decimal(n) ==
    IF n < 10 THEN <<DigitChars[n + 1]>>
    ELSE Decimal(n \div 10) \o <<DigitChars[(n % 10) + 1]>>

\* int(s) of a string of digits
RECURSIVE ParseDigits(_)
ParseDigits(s) ==
    IF s = <<>> THEN 0
    ELSE 10 * ParseDigits(SubSeq(s, 1, Len(s) - 1)) + DigitVal(s[Len(s)])

AllDigits(s) == s # <<>> /\ \A i \in 1..Len(s) : IsDigit(s[i])

\* datetime.isoformat(): the date-time text of the instant t
isoformat(t) == <<"T">> \o Decimal(t)

\* datetime.fromisoformat(s) raises ValueError unless s is a date-time text
IsIso(s) == Len(s) >= 2 /\ s[1] = "T" /\ AllDigits(Tail(s))

fromisoformat(s) == ParseDigits(Tail(s))

\* strftime('%Y%m%d_%H%M%S'): the instant cut to its second
strftime(t) == t \div TicksPerSecond

\* Path.stem of the file saved in second sec: "stats_<second>"
stem(sec) == <<"s", "t", "a", "t", "s", "_">> \o Decimal(sec)

\* mutant of sorted: the directory listing taken unsorted, here newest first
RECURSIVE sorted_newest_first(_)
sorted_newest_first(S) ==
    IF S = {} THEN <<>>
    ELSE LET m == CHOOSE x \in S : \A y \in S : x >= y
         IN  <<m>> \o sorted_newest_first(S \ {m})

\* sorted(...) of a set of file names (fixed-width names sort as their seconds)
RECURSIVE sorted(_)
sorted(S) ==
    IF S = {} THEN <<>>
    ELSE LET m == CHOOSE x \in S : \A y \in S : x <= y
         IN  <<m>> \o sorted(S \ {m})

(* ------------------------------- json ------------------------------- *)
\* A JSON text is a sequence of tokens <<kind, payload>>.
Open == <<"{", "">>
Close == <<"}", "">>

KeyOrder == <<"timestamp", "disk", "memory", "load", "docker">>

GroupKeyOrder(g) ==
    CASE g = "disk" -> <<"size", "used", "available", "usage_percent">>
      [] g = "memory" -> <<"total", "used", "free", "available">>
      [] g = "load" -> <<"1min", "5min", "15min">>
      [] g = "docker" -> <<"total", "running">>

\* the groups whose values are numbers; the other groups hold strings
LeafKind(g) == IF g \in {"load", "docker"} THEN "num" ELSE "str"

RECURSIVE DumpGroupMembers(_, _, _)
DumpGroupMembers(g, d, keys) ==
    IF keys = <<>> THEN <<>>
    ELSE (IF Head(keys) \in DOMAIN d
          THEN << <<"key", Head(keys)>>, <<LeafKind(g), d[Head(keys)]>> >>
          ELSE <<>>)
         \o DumpGroupMembers(g, d, Tail(keys))

DumpGroup(g, d) == <<Open>> \o DumpGroupMembers(g, d, GroupKeyOrder(g)) \o <<Close>>

RECURSIVE DumpMembers(_, _)
DumpMembers(stats, keys) ==
    IF keys = <<>> THEN <<>>
    ELSE (IF Head(keys) \notin DOMAIN stats THEN <<>>
          ELSE IF Head(keys) = "timestamp"
               THEN << <<"key", "timestamp">>, <<"str", stats.timestamp>> >>
               ELSE << <<"key", Head(keys)>> >> \o DumpGroup(Head(keys), stats[Head(keys)]))
         \o DumpMembers(stats, Tail(keys))

\* json.dump(stats, f)
json_dump(stats) == <<Open>> \o DumpMembers(stats, KeyOrder) \o <<Close>>

ParseFail == [ok |-> FALSE, val |-> EmptyDict, next |-> 0]

\* the members of an object from token q on, up to its closing brace
RECURSIVE ParseMembers(_, _, _)
ParseMembers(toks, q, acc) ==
    IF q > Len(toks) THEN ParseFail
    ELSE IF toks[q][1] = "}" THEN [ok |-> TRUE, val |-> acc, next |-> q + 1]
    ELSE IF toks[q][1] # "key" \/ q + 1 > Len(toks) THEN ParseFail
    ELSE LET k == toks[q][2]
             v == toks[q + 1]
         IN  IF v[1] \in {"str", "num"}
             THEN ParseMembers(toks, q + 2, Put(acc, k, v[2]))
             ELSE IF v[1] = "{"
             THEN LET r == ParseMembers(toks, q + 2, EmptyDict)
                  IN  IF r.ok THEN ParseMembers(toks, r.next, Put(acc, k, r.val))
                      ELSE ParseFail
             ELSE ParseFail

\* json.load(f): ok is FALSE where json.load raises
json_load(toks) ==
    IF toks = <<>> \/ toks[1][1] # "{" THEN ParseFail
    ELSE LET r == ParseMembers(toks, 2, EmptyDict)
         IN  IF r.ok /\ r.next = Len(toks) + 1 THEN r ELSE ParseFail

(* ---------------------------- snapshots ----------------------------- *)
DiskGroup(pct) ==
    [size |-> <<"5", "0", "G">>, used |-> <<"4", "0", "G">>,
     available |-> <<"1", "0", "G">>, usage_percent |-> pct]

MemoryGroup ==
    [total |-> <<"7", ".", "6", "G", "i">>, used |-> <<"2", ".", "1", "G", "i">>,
     free |-> <<"3", ".", "0", "G", "i">>, available |-> <<"5", ".", "2", "G", "i">>]

LoadGroup(l1, l5) == ("1min" :> l1) @@ ("5min" :> l5) @@ ("15min" :> l5)

DockerGroup(n, up) == [total |-> n, running |-> up]

\* What the four commands of get_current_stats can yield in the store's runs:
\* every command answering, and df, free and uptime all failing.
StoreOutcomes ==
    { [disk |-> DiskGroup(<<"8", "1", "%">>), memory |-> MemoryGroup,
       load |-> LoadGroup(50, 40), docker |-> DockerGroup(2, 1)],
      [disk |-> EmptyDict, memory |-> EmptyDict, load |-> EmptyDict,
       docker |-> DockerGroup(0, 0)] }

\* get_current_stats: the instance's timestamp with the collected groups
get_current_stats(ts, m) ==
    [timestamp |-> ts, disk |-> m.disk, memory |-> m.memory, load |-> m.load,
     docker |-> m.docker]

\* a stored snapshot with the given usage_percent, 1min load and container total
\* (an empty usage_percent: df failed; a negative load: uptime failed)
Snap(pct, l1, n) ==
    get_current_stats(isoformat(0),
        [disk |-> IF pct = <<>> THEN EmptyDict ELSE DiskGroup(pct),
         memory |-> MemoryGroup,
         load |-> IF l1 < 0 THEN EmptyDict ELSE LoadGroup(l1, 30),
         docker |-> DockerGroup(n, n)])

\* the snapshots the analysed windows are made of
AnalysisSnapshots ==
    { Snap(<<"6", "0", "%">>, 50, 0), Snap(<<"6", "5", "%">>, 40, 1),
      Snap(<<"7", "0", "%">>, 60, 0), Snap(<<"7", "6", "%">>, 300, 2),
      Snap(<<"8", "0", "%">>, 0, 0), Snap(<<"8", "1", "%">>, 400, 0),
      Snap(<<>>, -1, 0), Snap(<<>>, 300, 2), Snap(<<"8", "1", "%">>, -1, 0) }

RECURSIVE SnapSeq(_, _)
SnapSeq(pcts, l1s) ==
    IF pcts = <<>> THEN <<>>
    ELSE <<Snap(Head(pcts), Head(l1s), 0)>> \o SnapSeq(Tail(pcts), Tail(l1s))

\* the disk sequence 60, 65, 70, 76, 81 of five snapshots
DiskExample ==
    SnapSeq(<< <<"6", "0", "%">>, <<"6", "5", "%">>, <<"7", "0", "%">>,
               <<"7", "6", "%">>, <<"8", "1", "%">> >>, <<-1, -1, -1, -1, -1>>)

\* the load sequences 0.5, 0.4, 0.6, 3.0 and 0.5, 0.4, 0.6, 4.0
LoadExample3 == SnapSeq(<< <<>>, <<>>, <<>>, <<>> >>, <<50, 40, 60, 300>>)

LoadExample4 == SnapSeq(<< <<>>, <<>>, <<>>, <<>> >>, <<50, 40, 60, 400>>)

\* the windows analyze_trend is applied to
Windows ==
    UNION {[1..n -> AnalysisSnapshots] : n \in 0..MaxWin}
        \cup {DiskExample, LoadExample3, LoadExample4}

(* ------------------------------ store ------------------------------- *)
\* mutant of save_stats: the snapshot stamped with the instant of saving
save_stats_stamps_saving_time(fs, t, stats) ==
    Put(fs, strftime(t), json_dump([stats EXCEPT !.timestamp = isoformat(t)]))

\* save_stats: open(filename, 'w') and json.dump
save_stats(fs, t, stats) == Put(fs, strftime(t), json_dump(stats))

\* mutant of LoadFiles: the listing ends at the first file that does not load
RECURSIVE LoadFiles_abort_on_malformed(_, _, _)
LoadFiles_abort_on_malformed(names, fs, cutoff_time) ==
    IF names = <<>> THEN <<>>
    ELSE LET file == Head(names)
             r == json_load(fs[file])
             ts == Get(r.val, "timestamp", stem(file))
             rest == LoadFiles_abort_on_malformed(Tail(names), fs, cutoff_time)
         IN  IF ~r.ok THEN <<>>
             ELSE IF IsIso(ts) /\ fromisoformat(ts) > cutoff_time
             THEN <<r.val>> \o rest
             ELSE rest

\* the loop of load_recent_stats over the sorted file names
RECURSIVE LoadFiles(_, _, _)
LoadFiles(names, fs, cutoff_time) ==
    IF names = <<>> THEN <<>>
    ELSE LET file == Head(names)
             r == json_load(fs[file])
             ts == Get(r.val, "timestamp", stem(file))
             rest == LoadFiles(Tail(names), fs, cutoff_time)
         IN  IF r.ok /\ IsIso(ts) /\ fromisoformat(ts) > cutoff_time
             THEN <<r.val>> \o rest
             ELSE rest

\* load_recent_stats(hours) at instant t
load_recent_stats(fs, t, hours) == LoadFiles(sorted(DOMAIN fs), fs, t - hours * HourLen)

(* ----------------------------- numbers ------------------------------ *)
\* the float n, in hundredths
Float(n) == n * 100

\* the exact quotient n / d
Rat(n, d) == [num |-> n, den |-> d]

\* a > b for quotients with positive denominators
RatGT(a, b) == a.num * b.den > b.num * a.den

RatTimes(a, k) == Rat(a.num * k, a.den)

RECURSIVE Sum(_)
Sum(xs) == IF xs = <<>> THEN 0 ELSE Head(xs) + Sum(Tail(xs))

\* statistics.mean(xs) of a non-empty list
mean(xs) == Rat(Sum(xs), Len(xs))

\* max(xs) of a non-empty list
max(xs) == CHOOSE x \in {xs[i] : i \in 1..Len(xs)} : \A i \in 1..Len(xs) : xs[i] <= x

\* str.replace(c, '')
RECURSIVE replace(_, _)
replace(s, c) ==
    IF s = <<>> THEN <<>>
    ELSE (IF Head(s) = c THEN <<>> ELSE <<Head(s)>>) \o replace(Tail(s), c)

\* the position of the first "." of s, or 0
DotAt(s) ==
    IF \E p \in 1..Len(s) : s[p] = "."
    THEN CHOOSE p \in 1..Len(s) : s[p] = "." /\ \A q \in 1..(p - 1) : s[q] # "."
    ELSE 0

DigitsOrEmpty(s) == \A i \in 1..Len(s) : IsDigit(s[i])

\* float(s) succeeds: digits with at most one point and at most two decimals
\* (signs, exponents, blanks, inf and nan are outside the modelled strings)
IsFloat(s) ==
    LET p == DotAt(s)
    IN  IF p = 0 THEN AllDigits(s)
        ELSE /\ DigitsOrEmpty(SubSeq(s, 1, p - 1))
             /\ DigitsOrEmpty(SubSeq(s, p + 1, Len(s)))
             /\ Len(s) > 1
             /\ Len(s) - p <= 2

\* float(s), in hundredths
float(s) ==
    LET p == DotAt(s)
        frac == SubSeq(s, p + 1, Len(s))
    IN  IF p = 0 THEN Float(ParseDigits(s))
        ELSE Float(ParseDigits(SubSeq(s, 1, p - 1)))
             + (IF Len(frac) = 1 THEN 10 * ParseDigits(frac) ELSE ParseDigits(frac))

\* extract_numeric_value
extract_numeric_value(value) ==
    LET v == replace(replace(replace(value, "G"), "M"), "%")
    IN  IF IsFloat(v) THEN float(v) ELSE Float(0)

(* -------------------- windows of unusual fields --------------------- *)
\* the characters of the usage strings analysed one by one
ValueChars == {"8", ".", "%", "G", "M", "i", "N"}

\* every string of up to MaxChars of them that float() is modelled for:
\* a value in hundredths, at most two digits behind the point
ValueStrings ==
    {s \in UNION {[1..n -> ValueChars] : n \in 1..MaxChars} :
        LET v == replace(replace(replace(s, "G"), "M"), "%")
        IN  DotAt(v) = 0 \/ Len(v) - DotAt(v) <= 2}

\* a stored snapshot whose load group has no 1min entry
PartialLoadSnap ==
    [Snap(<<"7", "0", "%">>, 0, 1) EXCEPT !.load = ("5min" :> 30) @@ ("15min" :> 30)]

\* snapshots with every field, with groups missing, with a load group lacking
\* 1min, with a usage df prints as "-", with usage 0% and with no container
FieldSnapshots ==
    { Snap(<<"8", "1", "%">>, 300, 2), Snap(<<"6", "0", "%">>, 100, 0),
      Snap(<<>>, -1, 0), PartialLoadSnap,
      Snap(<<"-">>, 50, 1), Snap(<<"0", "%">>, 0, 1) }

\* the windows of these snapshots, and every usage string in a window of its own
FieldWindows ==
    UNION {[1..n -> FieldSnapshots] : n \in 0..MaxFieldWin}
        \cup {<<Snap(s, -1, 0)>> : s \in ValueStrings}

(* ----------------------------- analysis ----------------------------- *)
\* the list disk_usage of analyze_trend
RECURSIVE DiskUsage(_)
DiskUsage(stats_list) ==
    IF stats_list = <<>> THEN <<>>
    ELSE LET stat == Head(stats_list)
             pct == Get(Get(stat, "disk", EmptyDict), "usage_percent", <<>>)
         IN  (IF pct # <<>> THEN <<extract_numeric_value(pct)>> ELSE <<>>)
             \o DiskUsage(Tail(stats_list))

\* the lists load_1min (key "1min") and load_5min (key "5min") of analyze_trend
RECURSIVE LoadValues(_, _)
LoadValues(stats_list, key) ==
    IF stats_list = <<>> THEN <<>>
    ELSE LET ld == Get(Head(stats_list), "load", EmptyDict)
         IN  (IF DOMAIN ld # {} THEN <<Get(ld, key, 0)>> ELSE <<>>)
             \o LoadValues(Tail(stats_list), key)

\* mutant of ContainerCounts: a total of 0 counted like any other
RECURSIVE ContainerCounts_keeps_zero(_)
ContainerCounts_keeps_zero(stats_list) ==
    IF stats_list = <<>> THEN <<>>
    ELSE LET dk == Get(Head(stats_list), "docker", EmptyDict)
         IN  (IF DOMAIN dk # {} THEN <<Get(dk, "total", 0)>> ELSE <<>>)
             \o ContainerCounts_keeps_zero(Tail(stats_list))

\* the list container_counts of analyze_trend
RECURSIVE ContainerCounts(_)
ContainerCounts(stats_list) ==
    IF stats_list = <<>> THEN <<>>
    ELSE LET total == Get(Get(Head(stats_list), "docker", EmptyDict), "total", 0)
         IN  (IF total # 0 THEN <<total>> ELSE <<>>)
             \o ContainerCounts(Tail(stats_list))

\* mutant of DiskTrend: the delta taken as first minus last
DiskTrend_first_minus_last(disk_usage) ==
    LET disk_avg == mean(disk_usage)
        disk_latest == disk_usage[Len(disk_usage)]
        disk_trend == IF Len(disk_usage) > 1 THEN disk_usage[1] - disk_latest ELSE 0
    IN  [current |-> disk_latest,
         average |-> disk_avg,
         trend |-> disk_trend,
         trend_percent |-> IF RatGT(disk_avg, Rat(0, 1))
                           THEN Rat(disk_trend * disk_avg.den * 100, disk_avg.num)
                           ELSE Rat(0, 1)]

\* mutant of DiskTrend: a single value reported as its own delta
DiskTrend_single_is_delta(disk_usage) ==
    LET disk_avg == mean(disk_usage)
        disk_latest == disk_usage[Len(disk_usage)]
        disk_trend == IF Len(disk_usage) > 1 THEN disk_latest - disk_usage[1]
                      ELSE disk_latest
    IN  [current |-> disk_latest,
         average |-> disk_avg,
         trend |-> disk_trend,
         trend_percent |-> IF RatGT(disk_avg, Rat(0, 1))
                           THEN Rat(disk_trend * disk_avg.den * 100, disk_avg.num)
                           ELSE Rat(0, 1)]

\* mutant of DiskTrend: the percentage divided by the average without the guard
DiskTrend_unguarded_percent(disk_usage) ==
    LET disk_avg == mean(disk_usage)
        disk_latest == disk_usage[Len(disk_usage)]
        disk_trend == IF Len(disk_usage) > 1 THEN disk_latest - disk_usage[1] ELSE 0
    IN  [current |-> disk_latest,
         average |-> disk_avg,
         trend |-> disk_trend,
         trend_percent |-> Rat(disk_trend * disk_avg.den * 100, disk_avg.num)]

\* the disk trend summary of analyze_trend
DiskTrend(disk_usage) ==
    LET disk_avg == mean(disk_usage)
        disk_latest == disk_usage[Len(disk_usage)]
        disk_trend == IF Len(disk_usage) > 1 THEN disk_latest - disk_usage[1] ELSE 0
    IN  [current |-> disk_latest,
         average |-> disk_avg,
         trend |-> disk_trend,
         trend_percent |-> IF RatGT(disk_avg, Rat(0, 1))
                           THEN Rat(disk_trend * disk_avg.den * 100, disk_avg.num)
                           ELSE Rat(0, 1)]

\* mutant of DiskWarnings: the thresholds compared with >= instead of >
DiskWarnings_at_threshold(disk_usage) ==
    LET disk_latest == disk_usage[Len(disk_usage)]
    IN  IF disk_latest >= Float(80)
        THEN << [type |-> "disk", severity |-> "high",
                 message |-> <<"Disk usage is at", disk_latest>>] >>
        ELSE IF disk_latest >= Float(70)
        THEN << [type |-> "disk", severity |-> "medium",
                 message |-> <<"Disk usage is at", disk_latest>>] >>
        ELSE <<>>

\* mutant of DiskWarnings: the second threshold tested by if, not by elif
DiskWarnings_both_levels(disk_usage) ==
    LET disk_latest == disk_usage[Len(disk_usage)]
    IN  (IF disk_latest > Float(80)
         THEN << [type |-> "disk", severity |-> "high",
                  message |-> <<"Disk usage is at", disk_latest>>] >>
         ELSE <<>>)
        \o (IF disk_latest > Float(70)
            THEN << [type |-> "disk", severity |-> "medium",
                     message |-> <<"Disk usage is at", disk_latest>>] >>
            ELSE <<>>)

\* the disk threshold warning of analyze_trend
DiskWarnings(disk_usage) ==
    LET disk_latest == disk_usage[Len(disk_usage)]
    IN  IF disk_latest > Float(80)
        THEN << [type |-> "disk", severity |-> "high",
                 message |-> <<"Disk usage is at", disk_latest>>] >>
        ELSE IF disk_latest > Float(70)
        THEN << [type |-> "disk", severity |-> "medium",
                 message |-> <<"Disk usage is at", disk_latest>>] >>
        ELSE <<>>

\* mutant of DiskAnomalies: a growth rate of exactly 2 reported
DiskAnomalies_at_threshold(disk_usage) ==
    IF Len(disk_usage) > 3
    THEN LET growth_rate ==
                 Rat(disk_usage[Len(disk_usage)] - disk_usage[Len(disk_usage) - 3], 3)
         IN  IF ~RatGT(Rat(Float(2), 1), growth_rate)
             THEN << [type |-> "disk_growth", severity |-> "medium",
                      message |-> <<"Disk growing at", growth_rate>>] >>
             ELSE <<>>
    ELSE <<>>

\* mutant of DiskAnomalies: with three values the growth taken from the first
DiskAnomalies_three_values(disk_usage) ==
    IF Len(disk_usage) > 2
    THEN LET back == IF Len(disk_usage) > 3 THEN Len(disk_usage) - 3 ELSE 1
             growth_rate == Rat(disk_usage[Len(disk_usage)] - disk_usage[back], 3)
         IN  IF RatGT(growth_rate, Rat(Float(2), 1))
             THEN << [type |-> "disk_growth", severity |-> "medium",
                      message |-> <<"Disk growing at", growth_rate>>] >>
             ELSE <<>>
    ELSE <<>>

\* the disk growth anomaly of analyze_trend
DiskAnomalies(disk_usage) ==
    IF Len(disk_usage) > 3
    THEN LET growth_rate ==
                 Rat(disk_usage[Len(disk_usage)] - disk_usage[Len(disk_usage) - 3], 3)
         IN  IF RatGT(growth_rate, Rat(Float(2), 1))
             THEN << [type |-> "disk_growth", severity |-> "medium",
                      message |-> <<"Disk growing at", growth_rate>>] >>
             ELSE <<>>
    ELSE <<>>

\* the load trend summary of analyze_trend
LoadTrend(load_1min, load_5min) ==
    [current_1min |-> load_1min[Len(load_1min)],
     current_5min |-> IF load_5min # <<>> THEN load_5min[Len(load_5min)] ELSE 0,
     average |-> mean(load_1min),
     max |-> max(load_1min)]

\* mutant of LoadWarnings: a mean of exactly 2.0 reported
LoadWarnings_at_threshold(load_1min) ==
    LET load_avg == mean(load_1min)
    IN  IF ~RatGT(Rat(Float(2), 1), load_avg)
        THEN << [type |-> "load", severity |-> "high",
                 message |-> <<"High average load", load_avg>>] >>
        ELSE <<>>

\* the load threshold warning of analyze_trend
LoadWarnings(load_1min) ==
    LET load_avg == mean(load_1min)
    IN  IF RatGT(load_avg, Rat(Float(2), 1))
        THEN << [type |-> "load", severity |-> "high",
                 message |-> <<"High average load", load_avg>>] >>
        ELSE <<>>

\* mutant of LoadAnomalies: a maximum of exactly three times the mean reported
LoadAnomalies_at_threshold(load_1min) ==
    LET load_avg == mean(load_1min)
        load_max == max(load_1min)
    IN  IF ~RatGT(RatTimes(load_avg, 3), Rat(load_max, 1))
        THEN << [type |-> "load_spike", severity |-> "medium",
                 message |-> <<"Load spike detected", load_max, load_avg>>] >>
        ELSE <<>>

\* mutant of LoadAnomalies: the maximum compared with the mean of the earlier samples
LoadAnomalies_earlier_mean(load_1min) ==
    LET earlier == SubSeq(load_1min, 1, Len(load_1min) - 1)
        load_avg == IF earlier = <<>> THEN mean(load_1min) ELSE mean(earlier)
        load_max == max(load_1min)
    IN  IF RatGT(Rat(load_max, 1), RatTimes(load_avg, 3))
        THEN << [type |-> "load_spike", severity |-> "medium",
                 message |-> <<"Load spike detected", load_max, load_avg>>] >>
        ELSE <<>>

\* the load spike anomaly of analyze_trend
LoadAnomalies(load_1min) ==
    LET load_avg == mean(load_1min)
        load_max == max(load_1min)
    IN  IF RatGT(Rat(load_max, 1), RatTimes(load_avg, 3))
        THEN << [type |-> "load_spike", severity |-> "medium",
                 message |-> <<"Load spike detected", load_max, load_avg>>] >>
        ELSE <<>>

\* the docker trend summary of analyze_trend
DockerTrend(container_counts) ==
    [current |-> container_counts[Len(container_counts)],
     average |-> mean(container_counts),
     max |-> max(container_counts)]

Trends(stats_list) ==
    LET disk_usage == DiskUsage(stats_list)
        load_1min == LoadValues(stats_list, "1min")
        load_5min == LoadValues(stats_list, "5min")
        container_counts == ContainerCounts(stats_list)
        t1 == IF disk_usage # <<>> THEN Put(EmptyDict, "disk", DiskTrend(disk_usage))
              ELSE EmptyDict
        t2 == IF load_1min # <<>> THEN Put(t1, "load", LoadTrend(load_1min, load_5min))
              ELSE t1
    IN  IF container_counts # <<>> THEN Put(t2, "docker", DockerTrend(container_counts))
        ELSE t2

Warnings(stats_list) ==
    LET disk_usage == DiskUsage(stats_list)
        load_1min == LoadValues(stats_list, "1min")
    IN  (IF disk_usage # <<>> THEN DiskWarnings(disk_usage) ELSE <<>>)
        \o (IF load_1min # <<>> THEN LoadWarnings(load_1min) ELSE <<>>)

Anomalies(stats_list) ==
    LET disk_usage == DiskUsage(stats_list)
        load_1min == LoadValues(stats_list, "1min")
    IN  (IF disk_usage # <<>> THEN DiskAnomalies(disk_usage) ELSE <<>>)
        \o (IF load_1min # <<>> THEN LoadAnomalies(load_1min) ELSE <<>>)

\* mutant of analyze_trend: the empty window summarised like any other
analyze_trend_no_empty_guard(stats_list) ==
    [status |-> "ok",
     data_points |-> Len(stats_list),
     trends |-> Trends(stats_list),
     warnings |-> Warnings(stats_list),
     anomalies |-> Anomalies(stats_list)]

\* analyze_trend(stats_list)
analyze_trend(stats_list) ==
    IF stats_list = <<>>
    THEN [status |-> "no_data", message |-> "No historical data available"]
    ELSE [status |-> "ok",
          data_points |-> Len(stats_list),
          trends |-> Trends(stats_list),
          warnings |-> Warnings(stats_list),
          anomalies |-> Anomalies(stats_list)]

(* ----------------------------- actions ------------------------------ *)
\* main and the other scripts not started
ScriptsIdle ==
    /\ shell = [state |-> "none"]
    /\ snapshot = [state |-> "none"]
    /\ invocation = [pc |-> "none"]
    /\ daemon = [state |-> "none"]
    /\ health = [state |-> "none"]

Init ==
    /\ now = 0
    /\ alive = {}
    /\ timestamp = [i \in Inst |-> <<>>]
    /\ files = EmptyDict
    /\ saved = <<>>
    /\ recent = <<>>
    /\ analysis = [status |-> "none"]
    /\ pending = [i \in Inst |-> <<>>]
    /\ directory = "ok"
    /\ outcome = [op |-> "none"]
    /\ ScriptsIdle

\* the wall clock advances
Tick ==
    /\ now < MaxTime
    /\ now' = now + 1
    /\ UNCHANGED <<alive, timestamp, files, saved, recent, analysis>>
    /\ UNCHANGED scripts
    /\ UNCHANGED io

\* analyzer = TrendAnalyzer(data_dir); instances are numbered as they are made
Construct(i) ==
    /\ i \notin alive
    /\ \A j \in Inst : j < i => j \in alive
    /\ directory # "missing"
    /\ alive' = alive \cup {i}
    /\ timestamp' = [timestamp EXCEPT ![i] = isoformat(now)]
    /\ UNCHANGED <<now, files, saved, recent, analysis>>
    /\ UNCHANGED scripts
    /\ UNCHANGED io

\* current = analyzer.get_current_stats(); analyzer.save_stats(current)
SaveStats(i) ==
    /\ i \in alive
    /\ pending[i] = <<>>
    /\ directory = "ok"
    /\ Len(saved) < MaxSaves
    /\ \E m \in StoreOutcomes :
         LET current == get_current_stats(timestamp[i], m)
         IN  /\ files' = save_stats(files, now, current)
             /\ saved' = Append(saved, [name |-> strftime(now), stats |-> current])
    /\ UNCHANGED <<now, alive, timestamp, recent, analysis>>
    /\ UNCHANGED scripts
    /\ UNCHANGED io

\* recent = analyzer.load_recent_stats(hours); analysis = analyzer.analyze_trend(recent)
LoadRecentStats(i) ==
    /\ i \in alive
    /\ pending[i] = <<>>
    /\ directory = "ok"
    /\ UNCHANGED <<now, alive, timestamp, files, saved>>
    /\ UNCHANGED scripts
    /\ UNCHANGED io
    /\ \E h \in Hours :
         /\ recent' = load_recent_stats(files, now, h)
         /\ analysis' = analyze_trend(recent')

Next ==
    \/ Tick
    \/ \E i \in Inst : Construct(i)
    \/ \E i \in Inst : SaveStats(i)
    \/ \E i \in Inst : LoadRecentStats(i)

Spec == Init /\ [][Next]_vars

(* ------------------- a save in its two file steps ------------------- *)
\* f.write at offset 0 of a file holding old: what lay beyond the text stays
write(old, text) == text \o SubSeq(old, Len(text) + 1, Len(old))

\* the save_stats calls begun, finished or not
Begun == Len(saved) + Cardinality({i \in Inst : pending[i] # <<>>})

\* current = analyzer.get_current_stats(); save_stats up to open(filename, 'w'):
\* the file exists and is empty; json.dump's text waits in the file object's
\* buffer (a snapshot is far smaller than the buffer)
SaveOpen(i) ==
    /\ i \in alive
    /\ pending[i] = <<>>
    /\ directory = "ok"
    /\ Begun < MaxSaves
    /\ \E m \in StoreOutcomes :
         pending' = [pending EXCEPT ![i] =
                        << [name |-> strftime(now),
                            stats |-> get_current_stats(timestamp[i], m)] >>]
    /\ files' = Put(files, strftime(now), <<>>)
    /\ UNCHANGED <<now, alive, timestamp, saved, recent, analysis, directory, outcome>>
    /\ UNCHANGED scripts

\* save_stats from the end of its with block: the buffer is written and the file closed
SaveClose(i) ==
    /\ pending[i] # <<>>
    /\ LET p == pending[i][1]
       IN  /\ files' = Put(files, p.name, write(files[p.name], json_dump(p.stats)))
           /\ saved' = Append(saved, p)
    /\ pending' = [pending EXCEPT ![i] = <<>>]
    /\ UNCHANGED <<now, alive, timestamp, recent, analysis, directory, outcome>>
    /\ UNCHANGED scripts

NextWrite ==
    \/ Tick
    \/ \E i \in Inst : Construct(i)
    \/ \E i \in Inst : SaveOpen(i)
    \/ \E i \in Inst : SaveClose(i)
    \/ \E i \in Inst : LoadRecentStats(i)

\* the store with instances in separate processes: a save of one interleaves
\* with the saves and loads of the other
SpecWrite == Init /\ [][NextWrite]_vars

(* --------------------- an unavailable data_dir ---------------------- *)
DirectoryStates == {"ok", "missing", "denied"}

\* data_dir becomes unreachable (it and its parent are gone: "missing"),
\* loses its permissions ("denied"), or comes back with its files
DirectoryChanges ==
    /\ \E m \in DirectoryStates \ {directory} : directory' = m
    /\ UNCHANGED <<now, alive, timestamp, files, saved, recent, analysis, pending, outcome>>
    /\ UNCHANGED scripts

\* TrendAnalyzer(data_dir): mkdir(exist_ok=True) raises when data_dir is missing
\* and its parent too
ConstructFails(i) ==
    /\ i \notin alive
    /\ \A j \in Inst : j < i => j \in alive
    /\ directory = "missing"
    /\ outcome' = [op |-> "construct", found |-> directory, raised |-> TRUE]
    /\ UNCHANGED <<now, alive, timestamp, files, saved, recent, analysis, pending, directory>>
    /\ UNCHANGED scripts

\* save_stats: open(filename, 'w') raises, nothing catches it
SaveFails(i) ==
    /\ i \in alive
    /\ directory # "ok"
    /\ outcome' = [op |-> "save", found |-> directory, raised |-> TRUE]
    /\ UNCHANGED <<now, alive, timestamp, files, saved, recent, analysis, pending, directory>>
    /\ UNCHANGED scripts

\* load_recent_stats and analyze_trend: glob yields no file of a directory that
\* is missing or cannot be listed, so the loop does not run and [] is returned
LoadUnavailable(i) ==
    /\ i \in alive
    /\ directory # "ok"
    /\ recent' = <<>>
    /\ analysis' = analyze_trend(recent')
    /\ outcome' = [op |-> "load", found |-> directory, raised |-> FALSE]
    /\ UNCHANGED <<now, alive, timestamp, files, saved, pending, directory>>
    /\ UNCHANGED scripts

NextUnavailable ==
    \/ Next
    \/ DirectoryChanges
    \/ \E i \in Inst : ConstructFails(i)
    \/ \E i \in Inst : SaveFails(i)
    \/ \E i \in Inst : LoadUnavailable(i)

SpecUnavailable == Init /\ [][NextUnavailable]_vars

(* ------------------------- runs that fail --------------------------- *)
\* how much of json.dump's text reaches the file of a save that is interrupted:
\* none of it (the process is killed with the text still in the buffer) or a
\* part (the disk fills while the buffer is flushed)
WrittenBeforeFailure(text) == {<<>>, SubSeq(text, 1, Len(text) \div 2)}

\* a run whose get_current_stats raises: the run ends before save_stats
CollectRaises(i) ==
    /\ i \in alive
    /\ directory = "ok"
    /\ outcome.op = "none"
    /\ outcome' = [op |-> "collect", raised |-> TRUE]
    /\ alive' = alive \ {i}
    /\ timestamp' = [timestamp EXCEPT ![i] = <<>>]
    /\ UNCHANGED <<now, files, saved, recent, analysis, pending, directory>>
    /\ UNCHANGED scripts

\* a run that fails inside save_stats after open(filename, 'w'): the file was
\* created or truncated by the open and holds what was written until the failure
SaveInterrupted(i) ==
    /\ i \in alive
    /\ directory = "ok"
    /\ outcome.op = "none"
    /\ \E m \in StoreOutcomes :
         \E part \in WrittenBeforeFailure(json_dump(get_current_stats(timestamp[i], m))) :
             files' = Put(files, strftime(now), part)
    /\ outcome' = [op |-> "save", name |-> strftime(now), raised |-> TRUE]
    /\ alive' = alive \ {i}
    /\ timestamp' = [timestamp EXCEPT ![i] = <<>>]
    /\ UNCHANGED <<now, saved, recent, analysis, pending, directory>>
    /\ UNCHANGED scripts

NextFailure ==
    \/ Next
    \/ \E i \in Inst : CollectRaises(i)
    \/ \E i \in Inst : SaveInterrupted(i)

\* the store with one run that ends in a failure, among runs that do not
SpecFailure == Init /\ [][NextFailure]_vars

(* ------------------- cleanup.py beside the store -------------------- *)
\* find's -mtime +7: more than 7 whole days
RetentionDays == 7

\* one day of 24 hours, in ticks
DayLen == 24 * HourLen

\* find -mtime +7 on a snapshot file, last written in the second of its name:
\* its age in whole days exceeds 7
OlderThanRetention(f, t) == (t - f * TicksPerSecond) \div DayLen > RetentionDays

\* data_dir is left alone for eight days
DaysPass ==
    /\ now <= MaxTime
    /\ now' = now + (RetentionDays + 1) * DayLen
    /\ UNCHANGED <<alive, timestamp, files, saved, recent, analysis>>
    /\ UNCHANGED io
    /\ UNCHANGED scripts

\* cleanup.py's cleanup_tmp_files with data_dir at its default /tmp/system_trends:
\* sudo find /tmp -type f -mtime +7 -delete || true.  Where sudo refuses, the
\* find does not run and nothing is deleted; either way status ok is returned
cleanup_tmp_files ==
    /\ directory = "ok"
    /\ \E sudo \in BOOLEAN :
         LET count_before == Cardinality({f \in DOMAIN files : OlderThanRetention(f, now)})
             kept == IF sudo THEN {f \in DOMAIN files : ~OlderThanRetention(f, now)}
                     ELSE DOMAIN files
             count_after == Cardinality({f \in kept : OlderThanRetention(f, now)})
         IN  /\ files' = [f \in kept |-> files[f]]
             /\ outcome' = [op |-> "cleanup_tmp_files",
                            files_deleted |-> count_before - count_after,
                            status |-> "ok"]
    /\ UNCHANGED <<now, alive, timestamp, saved, recent, analysis, pending, directory>>
    /\ UNCHANGED scripts

NextCleanup ==
    \/ Next
    \/ DaysPass
    \/ cleanup_tmp_files

\* the store with the cleanup script run on the same machine
SpecCleanup == Init /\ [][NextCleanup]_vars

(* ------------------------------- main ------------------------------- *)
\* --hours when the caller gives none, and the hours generate_report passes
DefaultHours == 24

Formats == {"json", "text"}

\* the values of args.hours: given by the caller, or the default
HoursOption == Hours \cup {DefaultHours}

\* main up to analyzer = TrendAnalyzer(...): the arguments are parsed and the
\* analyzer of this invocation is constructed
MainStart(i, format, output, hours) ==
    /\ invocation.pc \in {"none", "done"}
    /\ i \notin alive
    /\ \A j \in Inst : j < i => j \in alive
    /\ directory # "missing"
    /\ alive' = alive \cup {i}
    /\ timestamp' = [timestamp EXCEPT ![i] = isoformat(now)]
    /\ UNCHANGED <<now, files, saved, recent, analysis>>
    /\ UNCHANGED io
    /\ invocation' = [pc |-> "print", analyzer |-> i, format |-> format,
                      output |-> output, hours |-> hours, passes |-> 0, window |-> <<>>,
                      saved_before |-> Len(saved)]
    /\ UNCHANGED <<shell, snapshot, daemon, health>>

\* the hours a pass hands to load_recent_stats: args.hours in the json branch,
\* the literal 24 of generate_report in the text branch
PassHours(inv) == IF inv.format = "json" THEN inv.hours ELSE DefaultHours

\* one pass of the pipeline, as both branches of main and generate_report run
\* it: get_current_stats, save_stats, load_recent_stats, analyze_trend, then the
\* result or report is built
Pass(next_pc) ==
    LET i == invocation.analyzer
        hrs == PassHours(invocation)
    IN  /\ directory = "ok"
        /\ \E m \in StoreOutcomes :
             LET current == get_current_stats(timestamp[i], m)
             IN  /\ files' = save_stats(files, now, current)
                 /\ saved' = Append(saved, [name |-> strftime(now), stats |-> current])
        /\ recent' = load_recent_stats(files', now, hrs)
        /\ analysis' = analyze_trend(recent')
        /\ invocation' = [invocation EXCEPT !.pc = next_pc, !.passes = @ + 1,
                                            !.window = Append(@, hrs)]
        /\ UNCHANGED <<now, alive, timestamp>>
        /\ UNCHANGED io
        /\ UNCHANGED <<shell, snapshot, daemon, health>>

\* main, lines 339-353: the pass whose result is printed
MainPrint ==
    /\ invocation.pc = "print"
    /\ Pass(IF invocation.output THEN "output" ELSE "done")

\* main, lines 355-365, with --output: the pass whose result is written to the file
MainOutput ==
    /\ invocation.pc = "output"
    /\ Pass("done")

NextMain ==
    \/ Tick
    \/ \E i \in Inst, format \in Formats, output \in BOOLEAN, hours \in HoursOption :
         MainStart(i, format, output, hours)
    \/ MainPrint
    \/ MainOutput

\* invocations of trend_analyzer.py, one after the other
SpecMain == Init /\ [][NextMain]_vars

(* ------------------- get_current_stats on its commands -------------- *)
\* str.strip() of blanks
RECURSIVE strip(_)
strip(s) ==
    IF s # <<>> /\ Head(s) = " " THEN strip(Tail(s))
    ELSE IF s # <<>> /\ s[Len(s)] = " " THEN strip(SubSeq(s, 1, Len(s) - 1))
    ELSE s

\* s starts with sep at position p
At(s, sep, p) == p + Len(sep) - 1 <= Len(s) /\ SubSeq(s, p, p + Len(sep) - 1) = sep

\* str.split(sep): the pieces of s between the occurrences of sep
RECURSIVE split(_, _)
split(s, sep) ==
    IF \E p \in 1..Len(s) : At(s, sep, p)
    THEN LET p == CHOOSE q \in 1..Len(s) : At(s, sep, q) /\ \A r \in 1..(q - 1) : ~At(s, sep, r)
         IN  <<SubSeq(s, 1, p - 1)>> \o split(SubSeq(s, p + Len(sep), Len(s)), sep)
    ELSE <<s>>

\* the text "load average"
LoadAverage == <<"l", "o", "a", "d", " ", "a", "v", "e", "r", "a", "g", "e">>

\* the line of uptime before its load figures
UptimeHead == <<"u", "p", " ", "1", " ", "d", "a", "y", ",", " ">>

\* a header line and the data line of df -h /, split into their columns
DfLines ==
    << <<"Filesystem", "Size", "Used", "Avail", "Use%", "Mounted">>,
       << <<"/">>, <<"5", "0", "G">>, <<"4", "0", "G">>, <<"1", "0", "G">>,
          <<"8", "1", "%">>, <<"/">> >> >>

\* what df -h / can print: nothing (the command failed), the header alone, a
\* data line cut short, the usual two lines
DfOutputs == {<<>>, <<DfLines[1]>>, <<DfLines[1], SubSeq(DfLines[2], 1, 2)>>, DfLines}

\* the header and the Mem: line of free -h
FreeLines ==
    << <<"total", "used", "free", "shared", "buff/cache", "available">>,
       << <<"M", "e", "m", ":">>, <<"7", ".", "6", "G", "i">>, <<"2", ".", "1", "G", "i">>,
          <<"3", ".", "0", "G", "i">>, <<"1", "M", "i">>, <<"2", ".", "5", "G", "i">>,
          <<"5", ".", "2", "G", "i">> >> >>

\* what free -h can print: nothing, the usual lines, a Mem: line without the
\* available column
FreeOutputs == {<<>>, FreeLines, <<FreeLines[1], SubSeq(FreeLines[2], 1, 4)>>}

\* what uptime can print: nothing; a line without load figures; the line of
\* Linux; the line of Linux under a locale with decimal commas; the line of
\* macOS and the BSDs, which reads "load averages:"
UptimeOutputs ==
    { <<>>,
      UptimeHead,
      UptimeHead \o LoadAverage
          \o <<":", " ", "0", ".", "5", "0", ",", " ", "0", ".", "4", "0", ",", " ", "0", ".", "4", "0">>,
      UptimeHead \o LoadAverage
          \o <<":", " ", "0", ",", "5", "0", ",", " ", "0", ",", "4", "0", ",", " ", "0", ",", "4", "0">>,
      UptimeHead \o LoadAverage
          \o <<"s", ":", " ", "0", ".", "5", "0", " ", "0", ".", "4", "0", " ", "0", ".", "4", "0">> }

\* a line of docker ps --format '{{json .}}': a container object with its
\* Status, or text that json.loads rejects
ContainerLine(status) == [json |-> TRUE, Status |-> status]

NotJsonLine == [json |-> FALSE]

\* what docker ps can print, with whether the command ran: nothing because it
\* failed, nothing because there is no container, two containers of which one
\* is up, a container after a line that is no JSON
DockerOutputs ==
    { [ran |-> FALSE, lines |-> <<>>],
      [ran |-> TRUE, lines |-> <<>>],
      [ran |-> TRUE, lines |-> <<ContainerLine("Up 2 hours"), ContainerLine("Exited (0)")>>],
      [ran |-> TRUE, lines |-> <<NotJsonLine, ContainerLine("Up 2 hours")>>] }

ShellOutputs ==
    [df : DfOutputs, free : FreeOutputs, uptime : UptimeOutputs, docker : DockerOutputs]

\* get_current_stats, lines 48-59: the disk group
CollectDisk(df_output) ==
    IF df_output # <<>> /\ Len(df_output) > 1 /\ Len(df_output[2]) >= 5
    THEN [size |-> df_output[2][2], used |-> df_output[2][3],
          available |-> df_output[2][4], usage_percent |-> df_output[2][5]]
    ELSE EmptyDict

\* get_current_stats, lines 62-73: the memory group
CollectMemory(mem_output) ==
    IF mem_output # <<>> /\ Len(mem_output) > 1 /\ Len(mem_output[2]) >= 4
    THEN [total |-> mem_output[2][2], used |-> mem_output[2][3], free |-> mem_output[2][4],
          available |-> IF Len(mem_output[2]) > 6 THEN mem_output[2][7]
                        ELSE <<"N", "/", "A">>]
    ELSE EmptyDict

\* get_current_stats, lines 76-86: the load group, or the exception that
\* leaves the function
CollectLoad(load_output) ==
    IF load_output = <<>> \/ Len(split(load_output, LoadAverage)) = 1
    THEN [raised |-> "", group |-> EmptyDict]
    ELSE LET pieces == split(load_output, LoadAverage \o <<":">>)
         IN  IF Len(pieces) < 2 THEN [raised |-> "IndexError", group |-> EmptyDict]
             ELSE LET items == split(strip(pieces[2]), <<",">>)
                  IN  IF \E k \in 1..Len(items) : ~IsFloat(strip(items[k]))
                      THEN [raised |-> "ValueError", group |-> EmptyDict]
                      ELSE IF Len(items) < 3
                      THEN [raised |-> "IndexError", group |-> EmptyDict]
                      ELSE [raised |-> "",
                            group |-> ("1min" :> float(strip(items[1])))
                                      @@ ("5min" :> float(strip(items[2])))
                                      @@ ("15min" :> float(strip(items[3])))]

\* s.startswith("Up")
StartsWithUp(status) == status \in {"Up 2 hours"}

\* get_current_stats, lines 89-100: the docker group
CollectDocker(docker_output) ==
    LET containers == SelectSeq(docker_output, LAMBDA line : line.json)
    IN  [total |-> Len(containers),
         running |-> Len(SelectSeq(containers, LAMBDA c : StartsWithUp(c.Status)))]

\* current = analyzer.get_current_stats() on the outputs the commands give
GetCurrentStats ==
    /\ snapshot.state = "none"
    /\ LET load == CollectLoad(shell.uptime)
       IN  snapshot' =
             IF load.raised # "" THEN [state |-> "raised", error |-> load.raised]
             ELSE [state |-> "returned",
                   stats |-> get_current_stats(timestamp[1],
                                 [disk |-> CollectDisk(shell.df),
                                  memory |-> CollectMemory(shell.free),
                                  load |-> load.group,
                                  docker |-> CollectDocker(shell.docker.lines)])]
    /\ UNCHANGED <<now, alive, timestamp, files, saved, recent, analysis>>
    /\ UNCHANGED io
    /\ UNCHANGED <<shell, invocation, daemon, health>>

\* get_current_stats as a function of what its four commands print
InitCollect ==
    /\ now = 0
    /\ alive = {1}
    /\ timestamp = [i \in Inst |-> IF i = 1 THEN isoformat(0) ELSE <<>>]
    /\ files = EmptyDict
    /\ saved = <<>>
    /\ recent = <<>>
    /\ analysis = [status |-> "none"]
    /\ pending = [i \in Inst |-> <<>>]
    /\ directory = "ok"
    /\ outcome = [op |-> "none"]
    /\ shell \in ShellOutputs
    /\ snapshot = [state |-> "none"]
    /\ invocation = [pc |-> "none"]
    /\ daemon = [state |-> "none"]
    /\ health = [state |-> "none"]

NextCollect == GetCurrentStats

SpecCollect == InitCollect /\ [][NextCollect]_vars

(* ------------------------ docker_optimizer.py ----------------------- *)
\* the ids of the engine's objects
ContainerIds == {1, 2}

ImageIds == {1, 2}

VolumeIds == {1}

\* the commands of the optimizer: their fixed words and the ids appended
Cmd(words, ids) == [argv |-> words, ids |-> ids]

SystemDf == Cmd(<<"docker", "system", "df", "--format", "json">>, <<>>)

PsExited ==
    Cmd(<<"docker", "ps", "-a", "--filter", "status=exited", "--format", "{{json .}}">>, <<>>)

ImagesDangling == Cmd(<<"docker", "images", "--filter", "dangling=true", "-q">>, <<>>)

VolumeLs == Cmd(<<"docker", "volume", "ls", "--filter", "dangling=true", "-q">>, <<>>)

Rm(ids) == Cmd(<<"docker", "rm">>, ids)

Rmi(ids) == Cmd(<<"docker", "rmi">>, ids)

VolumeRm(ids) == Cmd(<<"docker", "volume", "rm">>, ids)

BuilderPrune == Cmd(<<"docker", "builder", "prune", "-f">>, <<>>)

\* the elements of a list
Elements(xs) == {xs[k] : k \in 1..Len(xs)}

\* the line a dry run returns in place of a command's output; no JSON text
DryRunLine(cmd) == [json |-> FALSE, text |-> "[DRY RUN] Would run: ", command |-> cmd]

\* subprocess.run(cmd): what the engine does with the command and what it prints,
\* line by line (docker ps prints one JSON object per container, the -q
\* listings one id per line, docker system df one JSON object per kind)
Execute(d, cmd) ==
    LET e == [d EXCEPT !.ran = @ \cup {cmd}]
    IN  CASE cmd = SystemDf ->
               [daemon |-> e,
                output |-> << [json |-> TRUE, Type |-> "Images", TotalCount |-> Cardinality(d.images)],
                              [json |-> TRUE, Type |-> "Containers", TotalCount |-> Cardinality(d.stopped)],
                              [json |-> TRUE, Type |-> "Local Volumes", TotalCount |-> Cardinality(d.volumes)] >>]
          [] cmd = PsExited ->
               [daemon |-> e,
                output |-> [k \in 1..Cardinality(d.stopped) |->
                              [json |-> TRUE, ID |-> sorted(d.stopped)[k]]]]
          [] cmd = ImagesDangling -> [daemon |-> e, output |-> sorted(d.images)]
          [] cmd = VolumeLs -> [daemon |-> e, output |-> sorted(d.volumes)]
          [] cmd.argv = <<"docker", "rm">> ->
               [daemon |-> [e EXCEPT !.stopped = @ \ Elements(cmd.ids)], output |-> cmd.ids]
          [] cmd.argv = <<"docker", "rmi">> ->
               [daemon |-> [e EXCEPT !.images = @ \ Elements(cmd.ids)], output |-> cmd.ids]
          [] cmd.argv = <<"docker", "volume", "rm">> ->
               [daemon |-> [e EXCEPT !.volumes = @ \ Elements(cmd.ids)], output |-> cmd.ids]
          [] cmd = BuilderPrune ->
               [daemon |-> [e EXCEPT !.cache = FALSE], output |-> <<>>]

\* mutant of run_command: the command executed whatever dry_run is
run_command_ignores_dry_run(d, cmd) == Execute(d, cmd)

\* DockerOptimizer.run_command
run_command(d, cmd) ==
    IF d.dry_run THEN [daemon |-> d, output |-> <<DryRunLine(cmd)>>]
    ELSE Execute(d, cmd)

\* get_docker_disk_usage: json.loads accepts the output when it is one JSON text
get_docker_disk_usage(d) ==
    LET r == run_command(d, SystemDf)
    IN  [daemon |-> r.daemon,
         result |-> IF Len(r.output) = 1 /\ r.output[1].json THEN r.output[1]
                    ELSE [raw |-> r.output]]

\* get_stopped_containers: the lines json.loads accepts
get_stopped_containers(d) ==
    LET r == run_command(d, PsExited)
    IN  [daemon |-> r.daemon, result |-> SelectSeq(r.output, LAMBDA line : line.json)]

\* get_dangling_images: the lines that are not empty
get_dangling_images(d) ==
    LET r == run_command(d, ImagesDangling)
    IN  [daemon |-> r.daemon, result |-> r.output]

\* get_unused_volumes: the lines that are not empty
get_unused_volumes(d) ==
    LET r == run_command(d, VolumeLs)
    IN  [daemon |-> r.daemon, result |-> r.output]

clean_stopped_containers(d) ==
    LET g == get_stopped_containers(d)
        container_ids == [k \in 1..Len(g.result) |-> g.result[k].ID]
        r == run_command(g.daemon, Rm(container_ids))
    IN  IF container_ids = <<>>
        THEN [daemon |-> g.daemon,
              result |-> [status |-> "ok", message |-> "No stopped containers to clean"]]
        ELSE [daemon |-> r.daemon,
              result |-> [status |-> "ok", containers_cleaned |-> Len(container_ids),
                          output |-> r.output]]

clean_dangling_images(d) ==
    LET g == get_dangling_images(d)
        r == run_command(g.daemon, Rmi(g.result))
    IN  IF g.result = <<>>
        THEN [daemon |-> g.daemon,
              result |-> [status |-> "ok", message |-> "No dangling images to clean"]]
        ELSE [daemon |-> r.daemon,
              result |-> [status |-> "ok", images_cleaned |-> Len(g.result),
                          output |-> r.output]]

clean_unused_volumes(d) ==
    LET g == get_unused_volumes(d)
        r == run_command(g.daemon, VolumeRm(g.result))
    IN  IF g.result = <<>>
        THEN [daemon |-> g.daemon,
              result |-> [status |-> "ok", message |-> "No unused volumes to clean"]]
        ELSE [daemon |-> r.daemon,
              result |-> [status |-> "ok", volumes_cleaned |-> Len(g.result),
                          output |-> r.output]]

clean_build_cache(d) ==
    LET r == run_command(d, BuilderPrune)
    IN  [daemon |-> r.daemon, result |-> [status |-> "ok", output |-> r.output]]

clean_all(d) ==
    LET c == clean_stopped_containers(d)
        i == clean_dangling_images(c.daemon)
        v == clean_unused_volumes(i.daemon)
        b == clean_build_cache(v.daemon)
        u == get_docker_disk_usage(b.daemon)
    IN  [daemon |-> u.daemon,
         result |-> [dry_run |-> d.dry_run,
                     cleaned |-> [containers |-> c.result, dangling_images |-> i.result,
                                  volumes |-> v.result, build_cache |-> b.result],
                     disk_usage_after |-> u.result]]

\* DockerOptimizer.generate_report: the parts the report text is made of
generate_report(d) ==
    LET disk_before == get_docker_disk_usage(d)
        results == clean_all(disk_before.daemon)
    IN  [daemon |-> results.daemon,
         result |-> [mode |-> IF d.dry_run THEN "DRY RUN" ELSE "LIVE",
                     disk_before |-> disk_before.result,
                     cleaned |-> results.result.cleaned,
                     disk_after |-> results.result.disk_usage_after]]

\* an operation of the optimizer is called and returns
Returns(name, r) ==
    /\ daemon.state = "up"
    /\ daemon' = [r.daemon EXCEPT !.last = [op |-> name, result |-> r.result]]
    /\ UNCHANGED <<now, alive, timestamp, files, saved, recent, analysis>>
    /\ UNCHANGED io
    /\ UNCHANGED <<shell, snapshot, invocation, health>>

CleanStoppedContainers == Returns("clean_stopped_containers", clean_stopped_containers(daemon))

CleanDanglingImages == Returns("clean_dangling_images", clean_dangling_images(daemon))

CleanUnusedVolumes == Returns("clean_unused_volumes", clean_unused_volumes(daemon))

CleanBuildCache == Returns("clean_build_cache", clean_build_cache(daemon))

CleanAll == Returns("clean_all", clean_all(daemon))

GenerateReport == Returns("generate_report", generate_report(daemon))

\* optimizer = DockerOptimizer(dry_run=args.dry_run) before an engine with any
\* stopped containers, dangling images, unused volumes and build cache
InitDocker ==
    /\ now = 0
    /\ alive = {}
    /\ timestamp = [i \in Inst |-> <<>>]
    /\ files = EmptyDict
    /\ saved = <<>>
    /\ recent = <<>>
    /\ analysis = [status |-> "none"]
    /\ pending = [i \in Inst |-> <<>>]
    /\ directory = "ok"
    /\ outcome = [op |-> "none"]
    /\ shell = [state |-> "none"]
    /\ snapshot = [state |-> "none"]
    /\ invocation = [pc |-> "none"]
    /\ \E dry_run \in BOOLEAN, stopped \in SUBSET ContainerIds, images \in SUBSET ImageIds,
          volumes \in SUBSET VolumeIds, cache \in BOOLEAN :
         daemon = [state |-> "up", dry_run |-> dry_run, stopped |-> stopped,
                   images |-> images, volumes |-> volumes, cache |-> cache,
                   ran |-> {}, last |-> [op |-> "none"]]
    /\ health = [state |-> "none"]

NextDocker ==
    \/ CleanStoppedContainers
    \/ CleanDanglingImages
    \/ CleanUnusedVolumes
    \/ CleanBuildCache
    \/ CleanAll
    \/ GenerateReport

SpecDocker == InitDocker /\ [][NextDocker]_vars

(* -------------------------- health_check.py ------------------------- *)
\* Python's None
None == [type |-> "NoneType"]

\* the six checks, in the order of report['checks']
CheckNames == <<"disk", "memory", "load", "docker", "openclaw", "agent_sessions">>

\* what check_disk, check_memory, check_load and check_docker return: status
\* ok with the warning flag, or status error with a message
MeasuredOutcomes ==
    { [status |-> "ok", warning |-> FALSE],
      [status |-> "ok", warning |-> TRUE],
      [status |-> "error", message |-> "Unable to check"] }

\* what check_openclaw returns: the process found, or status warning (run_command
\* raises nothing, so its except branch is not reached)
OpenclawOutcomes ==
    { [status |-> "ok", running |-> TRUE],
      [status |-> "warning", running |-> FALSE, message |-> "OpenClaw process not found"] }

\* what check_agent_sessions returns: no agents directory; its size; and, when
\* the directory exists and du prints nothing, the end of the function: None
AgentSessionsOutcomes ==
    { [status |-> "ok", message |-> "No agents directory found"],
      [status |-> "ok", size |-> "1.2G"],
      None }

CheckOutcomes ==
    [disk : MeasuredOutcomes, memory : MeasuredOutcomes, load : MeasuredOutcomes,
     docker : MeasuredOutcomes, openclaw : OpenclawOutcomes,
     agent_sessions : AgentSessionsOutcomes]

\* the loop of generate_report over the checks from position k: the names added
\* to errors and to warnings
RECURSIVE Summarize(_, _)
Summarize(checks, k) ==
    IF k > Len(CheckNames) THEN [errors |-> <<>>, warnings |-> <<>>]
    ELSE LET name == CheckNames[k]
             check == checks[name]
             rest == Summarize(checks, k + 1)
         IN  IF Get(check, "status", "") = "error"
             THEN [rest EXCEPT !.errors = <<name>> \o @]
             ELSE IF Get(check, "warning", FALSE) = TRUE
             THEN [rest EXCEPT !.warnings = <<name>> \o @]
             ELSE rest

\* health_check.generate_report on the results of the six checks: check.get
\* raises AttributeError on a result that is None
generate_health_report(checks) ==
    IF \E k \in 1..Len(CheckNames) : checks[CheckNames[k]] = None
    THEN [raised |-> "AttributeError"]
    ELSE LET sums == Summarize(checks, 1)
         IN  [raised |-> "",
              report |-> [checks |-> checks,
                          overall |-> [status |-> IF sums.errors # <<>> THEN "error"
                                                  ELSE IF sums.warnings # <<>> THEN "warning"
                                                  ELSE "healthy",
                                       warnings |-> sums.warnings,
                                       errors |-> sums.errors]]]

\* main of health_check.py: the report is made, printed and saved, and the
\* process exits with the code of the overall status; an exception that leaves
\* generate_report ends the process with a traceback and exit code 1
HealthMain ==
    /\ health.state = "checked"
    /\ LET r == generate_health_report(health.checks)
       IN  health' =
             IF r.raised # ""
             THEN [state |-> "exited", checks |-> health.checks, raised |-> r.raised,
                   exit_code |-> 1]
             ELSE [state |-> "exited", checks |-> health.checks, raised |-> "",
                   report |-> r.report,
                   exit_code |-> IF r.report.overall.status = "error" THEN 1
                                 ELSE IF r.report.overall.status = "warning" THEN 2
                                 ELSE 0]
    /\ UNCHANGED <<now, alive, timestamp, files, saved, recent, analysis>>
    /\ UNCHANGED io
    /\ UNCHANGED <<shell, snapshot, invocation, daemon>>

\* generate_report as a function of what the six checks return
InitHealth ==
    /\ now = 0
    /\ alive = {}
    /\ timestamp = [i \in Inst |-> <<>>]
    /\ files = EmptyDict
    /\ saved = <<>>
    /\ recent = <<>>
    /\ analysis = [status |-> "none"]
    /\ pending = [i \in Inst |-> <<>>]
    /\ directory = "ok"
    /\ outcome = [op |-> "none"]
    /\ shell = [state |-> "none"]
    /\ snapshot = [state |-> "none"]
    /\ invocation = [pc |-> "none"]
    /\ daemon = [state |-> "none"]
    /\ \E checks \in CheckOutcomes : health = [state |-> "checked", checks |-> checks]

NextHealth == HealthMain

SpecHealth == InitHealth /\ [][NextHealth]_vars

\* analyze_trend as a function of its argument: every window, then one call
InitAnalyze ==
    /\ now = 0
    /\ alive = {1}
    /\ timestamp = [i \in Inst |-> IF i = 1 THEN isoformat(0) ELSE <<>>]
    /\ files = EmptyDict
    /\ saved = <<>>
    /\ recent \in Windows
    /\ analysis = [status |-> "none"]
    /\ pending = [i \in Inst |-> <<>>]
    /\ directory = "ok"
    /\ outcome = [op |-> "none"]
    /\ ScriptsIdle

\* analysis = analyzer.analyze_trend(recent)
AnalyzeTrend ==
    /\ analysis.status = "none"
    /\ analysis' = analyze_trend(recent)
    /\ UNCHANGED <<now, alive, timestamp, files, saved, recent>>
    /\ UNCHANGED scripts
    /\ UNCHANGED io

NextAnalyze == AnalyzeTrend

SpecAnalyze == InitAnalyze /\ [][NextAnalyze]_vars

\* analyze_trend applied to the windows of unusual fields
InitFields ==
    /\ now = 0
    /\ alive = {1}
    /\ timestamp = [i \in Inst |-> IF i = 1 THEN isoformat(0) ELSE <<>>]
    /\ files = EmptyDict
    /\ saved = <<>>
    /\ recent \in FieldWindows
    /\ analysis = [status |-> "none"]
    /\ pending = [i \in Inst |-> <<>>]
    /\ directory = "ok"
    /\ outcome = [op |-> "none"]
    /\ ScriptsIdle

SpecFields == InitFields /\ [][NextAnalyze]_vars

(* ======================= the snapshot store ========================= *)
\* the stored timestamp of a snapshot, as an instant
TimeOf(stats) == fromisoformat(stats.timestamp)

\* list since the beginning: a window that reaches before every timestamp
ListAll == load_recent_stats(files, now, MaxTime + 1)

\* the snapshot most recently appended under file name f
LastSaved(f) ==
    LET k == CHOOSE k \in 1..Len(saved) :
                 /\ saved[k].name = f
                 /\ \A j \in (k + 1)..Len(saved) : saved[j].name # f
    IN  saved[k].stats

\* C1 (as claimed): appends within one second never overwrite one another:
\* listing the store returns one snapshot for every append made.
C1_NoSilentOverwrite == Len(ListAll) = Len(saved)

\* C2 (as claimed): round trip: every snapshot appended is listed again,
\* field for field equal, whatever was appended after it.
C2_RoundTrip ==
    \A k \in 1..Len(saved) : \E j \in 1..Len(ListAll) : ListAll[j] = saved[k].stats

\* C3 (as claimed): the loaded window is in ascending order of the timestamp
\* field, also when instances save in another order than they were made.
C3_AscendingTimestamps ==
    \A a, b \in 1..Len(recent) : a < b => TimeOf(recent[a]) <= TimeOf(recent[b])

\* the files a load at instant t with the given hours keeps
Kept(fs, t, h) == {f \in DOMAIN fs : TimeOf(LastSaved(f)) > t - h * HourLen}

\* w lists the files of K in ascending order of file name, one record each
InFileOrder(w, K) ==
    /\ Len(w) = Cardinality(K)
    /\ \A f \in K : w[Cardinality({g \in K : g < f}) + 1] = LastSaved(f)

\* C3 (amended): every load returns exactly the stored snapshots whose
\* timestamp field is strictly greater than the cutoff, in ascending order of
\* file name (the second of saving); that is ascending timestamp order
\* whenever the stored timestamps do not decrease along the file names.
C3_LoadInFileOrder ==
    [][\A i \in Inst : LoadRecentStats(i) =>
          \E h \in Hours :
              /\ InFileOrder(recent', Kept(files, now, h))
              /\ (\A f, g \in DOMAIN files :
                     f < g => TimeOf(LastSaved(f)) <= TimeOf(LastSaved(g)))
                 => \A a, b \in 1..Len(recent') :
                        a < b => TimeOf(recent'[a]) <= TimeOf(recent'[b])]_vars

\* C3 witness: a load returned two snapshots, the first with the later timestamp.
C3_Witness ==
    /\ Len(recent) = 2
    /\ TimeOf(recent[1]) > TimeOf(recent[2])

(* =========================== the analysis =========================== *)
Analyzed == analysis.status # "none"

HasDisk(stat) ==
    /\ "disk" \in DOMAIN stat
    /\ "usage_percent" \in DOMAIN stat.disk
    /\ stat.disk.usage_percent # <<>>

HasLoad(stat) == "load" \in DOMAIN stat /\ DOMAIN stat.load # {}

HasContainers(stat) ==
    /\ "docker" \in DOMAIN stat
    /\ "total" \in DOMAIN stat.docker
    /\ stat.docker.total # 0

\* the values of a window the analysis counts, per metric, oldest first
PresentDisk(w) ==
    LET sel == SelectSeq(w, HasDisk)
    IN  [k \in 1..Len(sel) |-> extract_numeric_value(sel[k].disk.usage_percent)]

PresentLoad(w) ==
    LET sel == SelectSeq(w, HasLoad)
    IN  [k \in 1..Len(sel) |-> Get(sel[k].load, "1min", 0)]

PresentDocker(w) ==
    LET sel == SelectSeq(w, HasContainers)
    IN  [k \in 1..Len(sel) |-> sel[k].docker.total]

Present(w, metric) ==
    CASE metric = "disk" -> PresentDisk(w)
      [] metric = "load" -> PresentLoad(w)
      [] metric = "docker" -> PresentDocker(w)

Metrics == {"disk", "load", "docker"}

Last(xs) == xs[Len(xs)]

\* the number of entries of a list of warnings or anomalies with this type and severity
Count(list, t, sev) ==
    Cardinality({k \in 1..Len(list) : list[k].type = t /\ list[k].severity = sev})

\* C4 (as claimed): an empty window gives status no_data with warnings and
\* anomalies present and empty.
C4_EmptyCollections ==
    (Analyzed /\ recent = <<>>) =>
        /\ analysis.status = "no_data"
        /\ "warnings" \in DOMAIN analysis /\ analysis.warnings = <<>>
        /\ "anomalies" \in DOMAIN analysis /\ analysis.anomalies = <<>>

\* C4 (amended): an empty window gives exactly a status no_data and a message:
\* no trends, warnings or anomalies entry exists (so none is zero-filled), and
\* only an empty window gives no_data.
C4_NoDataOnly ==
    Analyzed =>
        /\ (recent = <<>>) <=> (analysis.status = "no_data")
        /\ (recent = <<>>) => DOMAIN analysis = {"status", "message"}
        /\ (recent # <<>>) => analysis.status = "ok"

\* C4 witness: snapshots are stored, none is in the window, and the analysis ran.
C4_Witness ==
    /\ DOMAIN files # {}
    /\ recent = <<>>
    /\ analysis.status = "no_data"

C7_DiskThreshold ==
    (Analyzed /\ recent # <<>> /\ Len(PresentDisk(recent)) >= 1) =>
        LET cur == analysis.trends.disk.current
            high == Count(analysis.warnings, "disk", "high")
            medium == Count(analysis.warnings, "disk", "medium")
        IN  /\ cur = Last(PresentDisk(recent))
            /\ (high = 1) <=> (cur > Float(80))
            /\ (medium = 1) <=> (cur > Float(70) /\ cur <= Float(80))
            /\ (high + medium = 0) <=> (cur <= Float(70))
            /\ high + medium <= 1
            /\ \A k \in 1..Len(analysis.warnings) :
                   analysis.warnings[k].type = "disk" =>
                       analysis.warnings[k].severity \in {"high", "medium"}

\* C7 witness: the latest disk value is exactly 80 and the warning is medium.
C7_Witness ==
    /\ Analyzed /\ recent # <<>>
    /\ Len(PresentDisk(recent)) >= 2
    /\ Last(PresentDisk(recent)) = Float(80)
    /\ Count(analysis.warnings, "disk", "medium") = 1

\* C8: a medium disk_growth anomaly iff there are at least 4 present disk
\* values and (latest - the value three places before it) / 3 > 2; and the
\* sequence 60, 65, 70, 76, 81 gives a high disk warning and the anomaly.
C8_DiskGrowth ==
    (Analyzed /\ recent # <<>>) =>
        LET xs == PresentDisk(recent)
            n == Len(xs)
        IN  /\ (Count(analysis.anomalies, "disk_growth", "medium") = 1)
                   <=> (n >= 4 /\ xs[n] - xs[n - 3] > 3 * Float(2))
            /\ \A k \in 1..Len(analysis.anomalies) :
                   analysis.anomalies[k].type = "disk_growth" =>
                       analysis.anomalies[k].severity = "medium"
            /\ recent = DiskExample =>
                   /\ Count(analysis.warnings, "disk", "high") = 1
                   /\ Count(analysis.anomalies, "disk_growth", "medium") = 1

\* C8 witness: the sequence 60, 65, 70, 76, 81 was analysed.
C8_Witness == recent = DiskExample /\ analysis.status = "ok"

\* C9: with at least one load sample: a medium load_spike anomaly iff the
\* maximum 1min load exceeds three times the mean of all the window's samples.
C9_LoadSpike ==
    (Analyzed /\ recent # <<>> /\ Len(PresentLoad(recent)) >= 1) =>
        LET xs == PresentLoad(recent)
            top == CHOOSE x \in {xs[k] : k \in 1..Len(xs)} :
                       \A k \in 1..Len(xs) : xs[k] <= x
        IN  /\ (Count(analysis.anomalies, "load_spike", "medium") = 1)
                   <=> (top * Len(xs) > 3 * Sum(xs))
            /\ \A k \in 1..Len(analysis.anomalies) :
                   analysis.anomalies[k].type = "load_spike" =>
                       analysis.anomalies[k].severity = "medium"

\* C9 witness: a spike was reported in a window of four load samples.
C9_Witness ==
    /\ Analyzed /\ recent # <<>>
    /\ Len(PresentLoad(recent)) = 4
    /\ Count(analysis.anomalies, "load_spike", "medium") = 1

\* C10 (as claimed): 0.5, 0.4, 0.6, 3.0 gives no load_spike and
\* 0.5, 0.4, 0.6, 4.0 gives one.
C10_WorkedExample ==
    Analyzed =>
        /\ recent = LoadExample3 => Count(analysis.anomalies, "load_spike", "medium") = 0
        /\ recent = LoadExample4 => Count(analysis.anomalies, "load_spike", "medium") = 1

\* C10 (amended): neither 0.5, 0.4, 0.6, 3.0 (mean 1.125) nor
\* 0.5, 0.4, 0.6, 4.0 (mean 1.375, three times which is 4.125) gives a load_spike.
C10_NoSpikeInEitherExample ==
    Analyzed =>
        /\ recent = LoadExample3 =>
               /\ analysis.trends.load.average = Rat(450, 4)
               /\ analysis.trends.load.max = 300
               /\ Count(analysis.anomalies, "load_spike", "medium") = 0
        /\ recent = LoadExample4 =>
               /\ analysis.trends.load.average = Rat(550, 4)
               /\ analysis.trends.load.max = 400
               /\ Count(analysis.anomalies, "load_spike", "medium") = 0

\* C10 witness: the sequence 0.5, 0.4, 0.6, 4.0 was analysed.
C10_Witness == recent = LoadExample4 /\ analysis.status = "ok"

\* C11: with at least one load sample: a high load warning iff the mean of the
\* window's 1min loads is strictly above 2.0; a mean of exactly 2.0 gives none,
\* and no load warning of another severity exists.
C11_LoadThreshold ==
    (Analyzed /\ recent # <<>> /\ Len(PresentLoad(recent)) >= 1) =>
        LET xs == PresentLoad(recent)
        IN  /\ (Count(analysis.warnings, "load", "high") = 1)
                   <=> (Sum(xs) > Float(2) * Len(xs))
            /\ Sum(xs) = Float(2) * Len(xs) =>
                   \A k \in 1..Len(analysis.warnings) : analysis.warnings[k].type # "load"
            /\ \A k \in 1..Len(analysis.warnings) :
                   analysis.warnings[k].type = "load" =>
                       analysis.warnings[k].severity = "high"

\* C11 witness: loads 4.0 and 0.0, mean exactly 2.0, and no load warning.
C11_Witness ==
    /\ Analyzed /\ recent # <<>>
    /\ PresentLoad(recent) = <<400, 0>>
    /\ \A k \in 1..Len(analysis.warnings) : analysis.warnings[k].type # "load"

(* ===================== present and absent values ==================== *)
\* the unit suffixes a value string may carry
UnitSuffixes == { <<>>, <<"%">>, <<"G">>, <<"M">>, <<"G", "i">>, <<"M", "i">> }

\* s is a numeral followed by the unit suffix u
EndsIn(s, u) ==
    /\ Len(u) < Len(s)
    /\ SubSeq(s, Len(s) - Len(u) + 1, Len(s)) = u
    /\ IsFloat(SubSeq(s, 1, Len(s) - Len(u)))

HasNumericPart(s) == \E u \in UnitSuffixes : EndsIn(s, u)

\* the numeric part of such a string, in hundredths
NumericPart(s) ==
    LET u == CHOOSE u \in UnitSuffixes : EndsIn(s, u)
    IN  float(SubSeq(s, 1, Len(s) - Len(u)))

\* the snapshot holds a value for the metric: its field exists and, for the
\* usage string, has a numeric part
FieldPresent(stat, metric) ==
    CASE metric = "disk" ->
             /\ "disk" \in DOMAIN stat
             /\ "usage_percent" \in DOMAIN stat.disk
             /\ HasNumericPart(stat.disk.usage_percent)
      [] metric = "load" -> "load" \in DOMAIN stat /\ "1min" \in DOMAIN stat.load
      [] metric = "docker" -> "docker" \in DOMAIN stat /\ "total" \in DOMAIN stat.docker

FieldValue(stat, metric) ==
    CASE metric = "disk" -> NumericPart(stat.disk.usage_percent)
      [] metric = "load" -> stat.load["1min"]
      [] metric = "docker" -> stat.docker.total

\* the values present in a window for the metric, oldest first
FieldValues(w, metric) ==
    LET sel == SelectSeq(w, LAMBDA stat : FieldPresent(stat, metric))
    IN  [k \in 1..Len(sel) |-> FieldValue(sel[k], metric)]

\* C12 (as claimed): the average of every metric's summary is the mean of
\* exactly the values present in the window; a snapshot without the field
\* adds nothing to the count or the sum and is not counted as 0.
C12_MeanOfPresentValues ==
    (Analyzed /\ recent # <<>>) =>
        \A m \in Metrics :
            m \in DOMAIN analysis.trends =>
                LET xs == FieldValues(recent, m)
                    avg == analysis.trends[m].average
                IN  /\ Len(xs) >= 1
                    /\ avg.num * Len(xs) = Sum(xs) * avg.den

\* C13 (as claimed): a usage string that is a numeral with a unit suffix
\* (%, G, M, Gi, Mi) is analysed as its numeric part, and any other string is
\* absent: it raises nothing and enters no statistic, neither as 0.
C13_ValueParsing ==
    (Analyzed /\ Len(recent) = 1 /\ "usage_percent" \in DOMAIN recent[1].disk) =>
        LET s == recent[1].disk.usage_percent
        IN  IF HasNumericPart(s)
            THEN /\ "disk" \in DOMAIN analysis.trends
                 /\ analysis.trends.disk.current = NumericPart(s)
            ELSE "disk" \notin DOMAIN analysis.trends

\* the current value of a metric's summary
Current(m) ==
    IF m = "load" THEN analysis.trends.load.current_1min ELSE analysis.trends[m].current

\* C14 (as claimed): the current of every metric's summary is the value of the
\* most recent snapshot of the window that holds a value for the metric, never
\* 0 or a default standing for an absent one.
C14_CurrentIsLatestPresent ==
    (Analyzed /\ recent # <<>>) =>
        \A m \in Metrics :
            m \in DOMAIN analysis.trends =>
                LET xs == FieldValues(recent, m)
                IN  Len(xs) >= 1 /\ Current(m) = Last(xs)

RECURSIVE GCD(_, _)
GCD(a, b) == IF b = 0 THEN a ELSE GCD(b, a % b)

Abs(n) == IF n < 0 THEN 0 - n ELSE n

\* a quotient with a positive denominator, in lowest terms
Lowest(q) ==
    LET g == GCD(Abs(q.num), q.den)
    IN  Rat(q.num \div g, q.den \div g)

\* a = b for quotients with positive denominators
SameQuotient(a, b) == a.den > 0 /\ b.den > 0 /\ Lowest(a) = Lowest(b)

\* C15: wherever a summary has a trend_percent (the disk summary), it equals
\* trend / average * 100 when the average is above 0 and is 0 otherwise; no
\* quotient with divisor 0 is formed.
C15_TrendPercent ==
    (Analyzed /\ recent # <<>>) =>
        \A m \in Metrics :
            (m \in DOMAIN analysis.trends /\ "trend_percent" \in DOMAIN analysis.trends[m]) =>
                LET d == analysis.trends[m]
                    tp == d.trend_percent
                IN  /\ d.average.den > 0
                    /\ tp.den # 0
                    /\ IF d.average.num > 0
                       THEN SameQuotient(tp, Rat(d.trend * 100 * d.average.den, d.average.num))
                       ELSE tp.num = 0

\* C15 witness: two usage values counted, their average 0, and trend_percent 0.
C15_Witness ==
    /\ Analyzed /\ recent # <<>>
    /\ Len(PresentDisk(recent)) = 2
    /\ analysis.trends.disk.average.num = 0
    /\ analysis.trends.disk.trend_percent.num = 0

\* the keys of an analysis of a non-empty window
AnalysisKeys == {"status", "data_points", "trends", "warnings", "anomalies"}

Parsed(fs) == [f \in DOMAIN fs |-> json_load(fs[f])]

\* the files whose text json.load accepts, and the others
WellFormed(fs) == {f \in DOMAIN fs : json_load(fs[f]).ok}

Malformed(fs) == DOMAIN fs \ WellFormed(fs)

\* of the parsed files, the well-formed ones a load at instant t with the
\* given hours keeps
Valid(parsed, t, h) ==
    {f \in DOMAIN parsed :
        /\ parsed[f].ok
        /\ "timestamp" \in DOMAIN parsed[f].val
        /\ IsIso(parsed[f].val.timestamp)
        /\ fromisoformat(parsed[f].val.timestamp) > t - h * HourLen}

\* w lists the records of the files of K in ascending order of file name
RecordsInFileOrder(w, parsed, K) ==
    /\ Len(w) = Cardinality(K)
    /\ \A f \in K : w[Cardinality({g \in K : g < f}) + 1] = parsed[f].val

C19_UnavailableStoreRaises == outcome.op # "none" => outcome.raised

\* C20 (as claimed): in every interleaving of a save with a load, the file of
\* the snapshot being written is, for the reader, absent or a complete record.
C20_AtomicAppend ==
    [][\A j \in Inst : LoadRecentStats(j) =>
          \A i \in Inst :
              pending[i] # <<>> =>
                  \/ pending[i][1].name \notin DOMAIN files
                  \/ pending[i][1].name \in WellFormed(files)]_vars

(* ========================= the docker trend ========================= *)
\* the window with the docker group of every snapshot of total 0 emptied
WithoutZeroTotals(w) ==
    [k \in 1..Len(w) |->
        IF HasContainers(w[k]) THEN w[k] ELSE [w[k] EXCEPT !.docker = EmptyDict]]

\* the docker summary of an analysis, <<>> when it has none
DockerSummary(a) ==
    IF "docker" \in DOMAIN a.trends THEN <<a.trends.docker>> ELSE <<>>

\* C28: the docker summary of a window is that of the same window with every
\* total of 0 taken as no docker data: there is none when every total is 0,
\* and otherwise its current is the last non-zero total, its average the sum
\* of the non-zero totals over their number and its max the largest of them.
C28_ZeroTotalIsNoData ==
    analysis.status = "ok" =>
        LET nz == PresentDocker(recent)
            d == DockerSummary(analysis)
        IN  /\ d = DockerSummary(analyze_trend(WithoutZeroTotals(recent)))
            /\ nz = <<>> <=> d = <<>>
            /\ nz # <<>> =>
                 /\ d[1].current = Last(nz)
                 /\ d[1].current # 0
                 /\ d[1].average = Rat(Sum(nz), Len(nz))
                 /\ \E k \in 1..Len(nz) : d[1].max = nz[k]
                 /\ \A k \in 1..Len(nz) : nz[k] <= d[1].max

\* a window whose newest snapshot has total 0 after one with containers, analysed
C28_Witness ==
    /\ analysis.status = "ok"
    /\ Len(recent) >= 2
    /\ recent[Len(recent)].docker.total = 0
    /\ \E k \in 1..Len(recent) - 1 : recent[k].docker.total # 0
    /\ "docker" \in DOMAIN analysis.trends
    /\ analysis.trends.docker.current # 0

(* ===================== the shape of an analysis ===================== *)
\* the entries of a list of warnings or anomalies with this type
OfType(list, t) == {k \in 1..Len(list) : list[k].type = t}

\* C25: in the analysis of a non-empty window every warning has type disk or
\* load and severity medium or high, every anomaly has type disk_growth or
\* load_spike and severity medium, no type occurs twice among the warnings or
\* among the anomalies, and docker counts have a summary under trends only.
C25_OutputShape ==
    (analysis.status = "ok" /\ recent # <<>>) =>
        /\ \A k \in 1..Len(analysis.warnings) :
             /\ analysis.warnings[k].type \in {"disk", "load"}
             /\ analysis.warnings[k].severity \in {"medium", "high"}
        /\ \A k \in 1..Len(analysis.anomalies) :
             /\ analysis.anomalies[k].type \in {"disk_growth", "load_spike"}
             /\ analysis.anomalies[k].severity = "medium"
        /\ \A t \in {"disk", "load"} : Cardinality(OfType(analysis.warnings, t)) <= 1
        /\ \A t \in {"disk_growth", "load_spike"} :
             Cardinality(OfType(analysis.anomalies, t)) <= 1
        /\ DOMAIN analysis.trends \subseteq Metrics
        /\ OfType(analysis.warnings, "docker") = {}
        /\ OfType(analysis.anomalies, "docker") = {}

\* a window with containers whose analysis holds a warning of each type
C25_Witness ==
    /\ analysis.status = "ok"
    /\ OfType(analysis.warnings, "disk") # {}
    /\ OfType(analysis.warnings, "load") # {}
    /\ Len(analysis.anomalies) >= 1
    /\ "docker" \in DOMAIN analysis.trends

(* ================== the timestamp of an instance ==================== *)
\* the snapshots stored in fs whose timestamp field lies after the cutoff
StampedAfter(fs, cutoff_time) ==
    {json_load(fs[f]).val : f \in {g \in DOMAIN fs : TimeOf(json_load(fs[g]).val) > cutoff_time}}

\* C27: the timestamp of an instance is the instant of its construction and
\* never changes; every snapshot the instance saves carries it, in whatever
\* second and under whatever file name it is saved; and a load keeps exactly
\* the stored snapshots whose timestamp field, not whose file name or saving
\* time, lies after the cutoff.
C27_ConstructionTimestamp ==
    [][/\ \A i \in Inst : Construct(i) => timestamp'[i] = isoformat(now)
       /\ \A i \in alive : timestamp'[i] = timestamp[i]
       /\ \A i \in Inst :
            SaveStats(i) =>
                LET r == json_load(files'[strftime(now)])
                IN  r.ok /\ r.val.timestamp = timestamp[i]
       /\ (\E i \in Inst : LoadRecentStats(i)) =>
            \A h \in Hours :
                recent' = load_recent_stats(files, now, h) =>
                    {recent'[k] : k \in 1..Len(recent')}
                        = StampedAfter(files, now - h * HourLen)]_vars

\* two snapshots of one construction instant saved in different seconds, and a
\* load in the second of the later save that kept neither
C27_Witness ==
    /\ Len(saved) = 2
    /\ saved[1].name # saved[2].name
    /\ saved[1].stats.timestamp = saved[2].stats.timestamp
    /\ saved[2].name = strftime(now)
    /\ TimeOf(saved[2].stats) < saved[2].name * TicksPerSecond
    /\ recent = <<>>
    /\ analysis.status = "no_data"

(* ======================== runs that fail ============================ *)
\* C21 (as claimed): a run that fails, at whatever step, leaves every snapshot
\* stored before it in the store, unchanged, for the runs that follow.
C21_FailedRunKeepsStore ==
    [][(\E i \in Inst : CollectRaises(i) \/ SaveInterrupted(i)) =>
          \A f \in WellFormed(files) :
              f \in DOMAIN files' /\ files'[f] = files[f]]_vars

(* ===================== deletion of snapshots ======================== *)
\* C22 (as claimed): no operation deletes a stored snapshot: the file of every
\* snapshot ever appended still exists, whatever scripts have run since.
C22_NoPhysicalDeletion ==
    \A k \in 1..Len(saved) : saved[k].name \in DOMAIN files

(* ============================== main ================================ *)
\* C23 (as claimed): in every output mode the window analysed is the one the
\* caller asked for: each pass of an invocation loads with cutoff now minus
\* args.hours, which is 24 only when --hours was not given.
C23_CallerWindow ==
    [][(MainPrint \/ MainOutput) =>
          recent' = load_recent_stats(files', now, invocation.hours)]_vars

\* C26 (as claimed): an invocation runs the pipeline once and appends exactly
\* one snapshot, whatever --format and --output are.
C26_OnePassOneAppend ==
    invocation.pc = "done" =>
        /\ invocation.passes = 1
        /\ Len(saved) = invocation.saved_before + 1

(* ========================== collection ============================== *)
\* the commands whose output holds what the group is read from
DiskObtained == shell.df = DfLines

MemoryObtained == shell.free \in FreeOutputs \ {<<>>}

LoadObtained == shell.uptime \in {u \in UptimeOutputs : Len(u) > Len(UptimeHead)}

DockerObtained == shell.docker.ran

\* C24 (as claimed): whatever the four commands print, get_current_stats
\* returns a snapshot without raising, and in it every group that could not be
\* obtained is empty, not filled with zeros or other made-up values.
C24_CollectionNeverFails ==
    snapshot.state # "none" =>
        /\ snapshot.state = "returned"
        /\ ~DiskObtained => snapshot.stats.disk = EmptyDict
        /\ ~MemoryObtained => snapshot.stats.memory = EmptyDict
        /\ ~LoadObtained => snapshot.stats.load = EmptyDict
        /\ ~DockerObtained => snapshot.stats.docker = EmptyDict

(* ========================= the docker dry run ======================= *)
\* the engine's objects
Objects(d) == <<d.stopped, d.images, d.volumes, d.cache>>

\* C29: with dry_run set, no operation of the optimizer executes a command:
\* after any sequence of them no command has run and the stopped containers,
\* dangling images, unused volumes and build cache are what they were.
C29_DryRunNoEffect ==
    [][(daemon.state = "up" /\ daemon.dry_run) =>
          /\ daemon'.ran = {}
          /\ daemon'.dry_run
          /\ Objects(daemon') = Objects(daemon)]_vars

\* a dry clean_all before an engine with objects of every kind: it reports an
\* image and a volume cleaned, and everything is still there
C29_Witness ==
    /\ daemon.state = "up"
    /\ daemon.dry_run
    /\ daemon.last.op = "clean_all"
    /\ daemon.last.result.cleaned.dangling_images.images_cleaned = 1
    /\ daemon.stopped = ContainerIds
    /\ daemon.images = ImageIds
    /\ daemon.volumes = VolumeIds
    /\ daemon.cache
    /\ daemon.ran = {}

(* ========================= the health report ======================== *)
\* the checks with status error, and those without it whose warning flag is true
Errored(checks) ==
    {k \in 1..Len(CheckNames) :
        "status" \in DOMAIN checks[CheckNames[k]] /\ checks[CheckNames[k]].status = "error"}

Flagged(checks) ==
    {k \in 1..Len(CheckNames) :
        /\ k \notin Errored(checks)
        /\ "warning" \in DOMAIN checks[CheckNames[k]]
        /\ checks[CheckNames[k]].warning}

\* C30 (as claimed): for every combination of results of the six checks a
\* report is returned; its overall status is error iff a check has status
\* error, otherwise warning iff a check has a true warning flag, otherwise
\* healthy; errors holds one entry per errored check and warnings one per
\* flagged check that is not errored; the exit code is 1, 2 or 0 accordingly.
C30_HealthAggregation ==
    health.state = "exited" =>
        /\ health.raised = ""
        /\ LET overall == health.report.overall
               E == Errored(health.checks)
               F == Flagged(health.checks)
           IN  /\ overall.status = (IF E # {} THEN "error"
                                    ELSE IF F # {} THEN "warning" ELSE "healthy")
               /\ Len(overall.errors) = Cardinality(E)
               /\ \A k \in E : \E j \in 1..Len(overall.errors) : overall.errors[j] = CheckNames[k]
               /\ Len(overall.warnings) = Cardinality(F)
               /\ \A k \in F : \E j \in 1..Len(overall.warnings) : overall.warnings[j] = CheckNames[k]
               /\ health.exit_code = (IF E # {} THEN 1 ELSE IF F # {} THEN 2 ELSE 0)

====
